---------------------------- MODULE Spec2Model ----------------------------
(***************************************************************************)
(* A model of testable.py: the decorator scanner (Testable.get_routes),    *)
(* the tree walker and module analyzer (Testable.find) and the reporter    *)
(* (ResultJSONEncoder.default, analyze).                                   *)
(*                                                                         *)
(* Python strings are TLA+ strings; Len, SubSeq and \o act on them         *)
(* character by character.  Python indices are 0-based, SubSeq and         *)
(* sequence application are 1-based: contents[i] of the code is            *)
(* contents[i + 1] here.                                                   *)
(***************************************************************************)
EXTENDS Integers, Sequences, FiniteSets, TLC

VARIABLES
    pc,          \* position of the run
    tree,        \* the directory tree: the set of [dir, name, lines] under top_dir
    extensions,  \* the extensions argument of find
    self_file,   \* the value of __file__ of the analyzer
    pending,     \* (dir, name) pairs os.walk has not yet yielded
    results,     \* the dict results of find: full path -> sequence of Result
    cur,         \* the file being handled: [dir, name]
    contents,    \* the list contents (f.readlines(), or the argument of get_routes)
    lineno,      \* the argument lineno of get_routes
    ret,         \* what get_routes returned
    open_files,  \* files find holds open
    opened,      \* history: every path find has opened
    parsed,      \* history: every path the structural analysis has read
    modules,     \* pyclbr's module cache: module name -> its tree of definitions
    module_data, \* the dict module_data of the file being handled (line 101)
    fault,       \* the exception that ended the run, "" for none
    self_path,   \* where the analyzer's own source file is
    output       \* the document analyze prints

vars == <<pc, tree, extensions, self_file, pending, results, cur, contents,
          lineno, ret, open_files, opened, parsed, modules, module_data, fault,
          self_path, output>>

-----------------------------------------------------------------------------
(* Bounds of the model.                                                    *)

\* longest contents get_routes is called with on its own
MaxLines == 3
\* most files a directory tree holds
MaxFiles == 3

-----------------------------------------------------------------------------
(* Python string operations.                                               *)

Char(s, i) == SubSeq(s, i, i)

\* str.startswith(prefix)
startswith(s, prefix) ==
    /\ Len(prefix) <= Len(s)
    /\ SubSeq(s, 1, Len(prefix)) = prefix

\* str.endswith(suffix)
endswith(s, suffix) ==
    /\ Len(suffix) <= Len(s)
    /\ SubSeq(s, Len(s) - Len(suffix) + 1, Len(s)) = suffix

\* sub in s
contains(s, sub) ==
    \E i \in 1..(Len(s) - Len(sub) + 1) : SubSeq(s, i, i + Len(sub) - 1) = sub

\* the characters str.strip() removes
Whitespace == {" ", "\t", "\n", "\r", "\f"}

RECURSIVE lstrip(_)
lstrip(s) ==
    IF Len(s) > 0 /\ Char(s, 1) \in Whitespace
    THEN lstrip(SubSeq(s, 2, Len(s)))
    ELSE s

RECURSIVE rstrip(_)
rstrip(s) ==
    IF Len(s) > 0 /\ Char(s, Len(s)) \in Whitespace
    THEN rstrip(SubSeq(s, 1, Len(s) - 1))
    ELSE s

\* a scan that appends the raw line
strip_keep(s) == s

\* str.strip()
strip(s) == rstrip(lstrip(s))

-----------------------------------------------------------------------------
(* Testable.get_routes                                                     *)

\* a test for '@' anywhere in the line
IsDecorator_anywhere(line) == contains(line, "@")

\* line 73: contents[lineno].startswith('@')
IsDecorator(line) == startswith(line, "@")

\* line 74: '.route(' in contents[lineno]
IsRoute(line) == contains(line, ".route(")

\* The loop of lines 70-77 from the value lineno has on entering an
\* iteration.  taken lists the (0-based) indices whose lines were appended;
\* the code returns routes alone and raises IndexError where contents[lineno]
\* is out of range.
RECURSIVE scan(_, _, _, _)
scan(cont, ln, routes, taken) ==
    LET i == ln - 1 IN
    IF i < 0
    THEN [status |-> "ok", routes |-> routes, taken |-> taken]
    ELSE IF i >= Len(cont)
    THEN [status |-> "IndexError", routes |-> <<>>, taken |-> <<>>]
    ELSE IF IsDecorator(cont[i + 1])
    THEN IF IsRoute(cont[i + 1])
         THEN scan(cont, i, Append(routes, strip(cont[i + 1])), Append(taken, i))
         ELSE scan(cont, i, routes, taken)
    ELSE [status |-> "ok", routes |-> routes, taken |-> taken]

\* lines 68-78
get_routes(cont, ln) == scan(cont, ln - 1, <<>>, <<>>)

-----------------------------------------------------------------------------
(* Paths and dicts.                                                        *)

\* self.top_dir (line 56): the absolute path of the scanned root
top_dir == "/r"

\* os.path.join(parent_dir, filename), line 94
join(parent_dir, filename) == parent_dir \o "/" \o filename

FullPath(f) == join(f.dir, f.name)

\* the index of the last '.' of s, 0 when it has none
LastDot(s) ==
    IF \E i \in 1..Len(s) : Char(s, i) = "."
    THEN CHOOSE i \in 1..Len(s) :
             Char(s, i) = "." /\ \A j \in (i + 1)..Len(s) : Char(s, j) # "."
    ELSE 0

\* os.path.splitext(filename)[0], line 93: the name up to its last dot;
\* leading dots do not start an extension
splitext_root(filename) ==
    LET i == LastDot(filename) IN
    IF i = 0 \/ \A j \in 1..(i - 1) : Char(filename, j) = "."
    THEN filename
    ELSE SubSeq(filename, 1, i - 1)

\* a test against the first extension only
matches_first(filename, exts) ==
    Len(exts) > 0 /\ endswith(filename, exts[1])

\* line 92: filename.endswith(extensions), extensions a tuple of suffixes
matches(filename, exts) ==
    \E i \in 1..Len(exts) : endswith(filename, exts[i])

\* A dict is the sequence of its [key, val] items in insertion order.
Keys(d) == {d[i].key : i \in 1..Len(d)}

Get(d, k) == (CHOOSE i \in 1..Len(d) : d[i].key = k) \* position of key k

Val(d, k) == d[Get(d, k)].val

\* d[k] = v
Put(d, k, v) ==
    IF k \in Keys(d)
    THEN [d EXCEPT ![Get(d, k)] = [key |-> k, val |-> v]]
    ELSE Append(d, [key |-> k, val |-> v])

\* lines 95-96: if full_path not in results: results[full_path] = []
setdefault(d, k) == IF k \in Keys(d) THEN d ELSE Put(d, k, <<>>)

-----------------------------------------------------------------------------
(* pyclbr.readmodule_ex(fn, [parent_dir]), called at line 101: the module  *)
(* is looked up BY NAME, first in pyclbr's cache of modules already read,  *)
(* then as <name>.py in parent_dir, then on sys.path; its source is parsed *)
(* and its top-level classes and functions, and the names it imports with  *)
(* "from m import n", are returned as a dict name -> object with file,     *)
(* lineno and kind.                                                        *)

\* the one module sys.path holds, outside the scanned root
SysPathFiles == {[dir |-> "/lib", name |-> "s.py", lines |-> <<"def k():\n">>]}

\* the source file of module name as seen from directory dir, "" for none
find_spec(name, dir, files) ==
    LET local == {f \in files : f.dir = dir /\ f.name = name \o ".py"}
        onpath == {f \in SysPathFiles : f.name = name \o ".py"}
    IN  IF local # {} THEN FullPath(CHOOSE f \in local : TRUE)
        ELSE IF onpath # {} THEN FullPath(CHOOSE f \in onpath : TRUE)
        ELSE ""

SourceOf(path, files) ==
    (CHOOSE f \in files \cup SysPathFiles : FullPath(f) = path).lines

\* the first index of character c in s, 0 when absent
IndexOf(s, c) ==
    IF \E i \in 1..Len(s) : Char(s, i) = c
    THEN CHOOSE i \in 1..Len(s) : Char(s, i) = c /\ \A j \in 1..(i - 1) : Char(s, j) # c
    ELSE 0

IsDef(line) == startswith(line, "def ")
IsClass(line) == startswith(line, "class ")
IsFromImport(line) == startswith(line, "from ") /\ contains(line, " import ")

\* a def or class statement without a name does not parse
IsSyntaxError(line) ==
    \/ IsDef(line) /\ IndexOf(line, "(") <= 5
    \/ IsClass(line) /\ IndexOf(line, ":") <= 7

DefName(line) == SubSeq(line, 5, IndexOf(line, "(") - 1)
ClassName(line) == SubSeq(line, 7, IndexOf(line, ":") - 1)
\* "from m import n": m and n are single words
ImportModule(line) == SubSeq(line, 6, IndexOf(SubSeq(line, 6, Len(line)), " ") + 4)
ImportName(line) ==
    LET rest == SubSeq(line, 6, Len(line))
        sp == IndexOf(rest, " ")
    IN  strip(SubSeq(rest, sp + 8, Len(rest)))

RECURSIVE readmodule(_, _, _, _), visit(_, _, _, _, _, _)

\* pyclbr._readmodule: st = [cache, parsed]; the result carries the tree and
\* the state after the call.  The cache entry is made before the source is
\* parsed, and stays when the parse raises.
readmodule(name, dir, files, st) ==
    IF name \in Keys(st.cache)
    THEN [status |-> "ok", tree |-> Val(st.cache, name), st |-> st]
    ELSE LET path == find_spec(name, dir, files) IN
         IF path = ""
         THEN [status |-> "ModuleNotFoundError", tree |-> <<>>, st |-> st]
         ELSE LET src == SourceOf(path, files)
                  st1 == [cache |-> Put(st.cache, name, <<>>),
                          parsed |-> st.parsed \cup {path}]
              IN  IF \E i \in 1..Len(src) : IsSyntaxError(src[i])
                  THEN [status |-> "SyntaxError", tree |-> <<>>, st |-> st1]
                  ELSE LET r == visit(src, 1, path, dir, files, [tree |-> <<>>, st |-> st1])
                       IN  [status |-> "ok", tree |-> r.tree,
                            st |-> [r.st EXCEPT !.cache = Put(r.st.cache, name, r.tree)]]

\* the visit of the statements src[i..]: acc = [tree, st]
visit(src, i, path, dir, files, acc) ==
    IF i > Len(src) THEN acc
    ELSE LET line == src[i] IN
         IF IsDef(line)
         THEN visit(src, i + 1, path, dir, files,
                    [acc EXCEPT !.tree = Put(acc.tree, DefName(line),
                        [file |-> path, name |-> DefName(line), lineno |-> i,
                         kind |-> "Function"])])
         ELSE IF IsClass(line)
         THEN visit(src, i + 1, path, dir, files,
                    [acc EXCEPT !.tree = Put(acc.tree, ClassName(line),
                        [file |-> path, name |-> ClassName(line), lineno |-> i,
                         kind |-> "Class"])])
         ELSE IF IsFromImport(line)
         THEN LET r == readmodule(ImportModule(line), dir, files, acc.st)
                  n == ImportName(line)
              IN  IF r.status = "ok" /\ n \in Keys(r.tree)
                  THEN visit(src, i + 1, path, dir, files,
                             [tree |-> Put(acc.tree, n, Val(r.tree, n)), st |-> r.st])
                  ELSE visit(src, i + 1, path, dir, files, [acc EXCEPT !.st = r.st])
         ELSE visit(src, i + 1, path, dir, files, acc)

-----------------------------------------------------------------------------
(* Testable.find, and analyze's report of what it returns.                 *)

\* the filter without the comparison of line 106
retained_in_root(obj, full_path) == startswith(obj.file, top_dir)

\* lines 104-107: the object is kept when neither continue is taken
retained(obj, full_path) ==
    /\ startswith(obj.file, top_dir)
    /\ obj.file = full_path

\* Result(obj), lines 29-35, with the fields of obj the encoder reads
Result(obj) ==
    [file |-> obj.file, name |-> obj.name, lineno |-> obj.lineno,
     obj_type |-> obj.kind, routes |-> <<>>]

\* lines 103-111 from item i of module_data on: acc = [results, fault]
RECURSIVE collect(_, _, _, _, _)
collect(data, i, full_path, cont, acc) ==
    IF i > Len(data) THEN acc
    ELSE LET obj == data[i].val IN
         IF ~retained(obj, full_path)
         THEN collect(data, i + 1, full_path, cont, acc)
         ELSE LET r == get_routes(cont, obj.lineno)
                  result == [Result(obj) EXCEPT !.routes = r.routes]
                  appended == Put(acc.results, full_path,
                                  Append(Val(acc.results, full_path), result))
              IN  IF r.status = "ok"
                  THEN collect(data, i + 1, full_path, cont,
                               [acc EXCEPT !.results = appended])
                  ELSE [results |-> appended, fault |-> r.status]

\* a close that an exception skips (no with block)
release_on_success(files, path, exc) == IF exc THEN files ELSE files \ {path}

\* the exit of the with block of lines 98-99: the file is closed, whether
\* the block ended normally or by an exception
release(files, path, exc) == files \ {path}

\* an encoder that returns the four fields unwrapped
default_flat(o) ==
    <<[key |-> "type", val |-> o.obj_type], [key |-> "name", val |-> o.name],
      [key |-> "lineno", val |-> o.lineno], [key |-> "routes", val |-> o.routes]>>

\* ResultJSONEncoder.default, lines 39-48: a JSON object is the sequence of
\* its [key, val] members
default(o) ==
    <<[key |-> o.file,
       val |-> <<[key |-> "type", val |-> o.obj_type],
                 [key |-> "name", val |-> o.name],
                 [key |-> "lineno", val |-> o.lineno],
                 [key |-> "routes", val |-> o.routes]>>]>>

\* json.dumps(results, cls=ResultJSONEncoder), line 131
dumps(d) ==
    [i \in 1..Len(d) |->
        [key |-> d[i].key,
         val |-> [j \in 1..Len(d[i].val) |-> default(d[i].val[j])]]]

\* The directory trees of the model: files of three directories under
\* top_dir, at most MaxFiles of them.
PyPool ==
    { <<"@a.route(1)\n", "@login\n", "def f():\n", "class K:\n">>,
      <<"from t import g\n", "x = 1\n", "@b.route(2) \t\n", "def h():\n">>,
      <<"from s import k\n", "class C:\n">>,
      <<"x = 1\n">>,
      <<"def (:\n">> }

Candidates ==
    {[dir |-> d, name |-> "u.py", lines |-> c] : d \in {"/r/a", "/r/b"}, c \in PyPool}
    \cup {[dir |-> d, name |-> "t.py", lines |-> <<"@a.route(1)\n", "def g():\n">>] :
             d \in {"/r/a", "/r/b"}}
    \cup {[dir |-> "/r/a", name |-> "u.sh", lines |-> <<"echo hi\n">>],
          [dir |-> "/r", name |-> "s.sh", lines |-> <<"echo hi\n">>],
          [dir |-> "/r", name |-> "n.txt", lines |-> <<"def z():\n">>]}

Trees ==
    {t \in SUBSET Candidates :
        /\ Cardinality(t) <= MaxFiles
        /\ \A f, g \in t : FullPath(f) = FullPath(g) => f = g}

NoFile == [dir |-> "", name |-> ""]

Init ==
    /\ pc = "walk"
    /\ tree \in Trees
    /\ extensions \in {<<".py", ".sh">>, <<".sh">>}
    /\ self_path \in {"/opt/t.py"} \cup {FullPath(f) : f \in {g \in tree : g.name = "t.py" /\ g.dir = "/r/a"}}
    /\ self_file \in {"t.py", "./t.py", self_path}
    /\ pending = {[dir |-> f.dir, name |-> f.name] : f \in tree}
    /\ results = <<>>
    /\ cur = NoFile
    /\ contents = <<>>
    /\ lineno = 0
    /\ ret = [status |-> "none", routes |-> <<>>, taken |-> <<>>]
    /\ open_files = {}
    /\ opened = {}
    /\ parsed = {}
    /\ modules = <<>>
    /\ module_data = <<>>
    /\ fault = ""
    /\ output = <<>>

\* os.walk(self.top_dir, topdown=False), lines 86-89: the files of one
\* directory come together, in any order, and a directory comes after the
\* directories below it
CanYield(f) ==
    /\ f \in pending
    /\ LET here == {g \in pending : g.dir = cur.dir} IN
       IF here # {} THEN f \in here
       ELSE f.dir = top_dir => \A g \in pending : g.dir = top_dir

\* line 90: the file is passed over when its name equals __file__
SkipSelf(f) ==
    /\ pc = "walk" /\ CanYield(f)
    /\ f.name = self_file
    /\ pending' = pending \ {f}
    /\ cur' = f
    /\ UNCHANGED <<pc, tree, extensions, self_file, results, contents, lineno, ret,
                   open_files, opened, parsed, modules, module_data, fault,
                   self_path, output>>

\* line 92, false: the name ends in none of the extensions
SkipExtension(f) ==
    /\ pc = "walk" /\ CanYield(f)
    /\ f.name # self_file
    /\ ~matches(f.name, extensions)
    /\ pending' = pending \ {f}
    /\ cur' = f
    /\ UNCHANGED <<pc, tree, extensions, self_file, results, contents, lineno, ret,
                   open_files, opened, parsed, modules, module_data, fault,
                   self_path, output>>

\* lines 92-96: the key of the file is made
Visit(f) ==
    /\ pc = "walk" /\ CanYield(f)
    /\ f.name # self_file
    /\ matches(f.name, extensions)
    /\ pending' = pending \ {f}
    /\ cur' = f
    /\ results' = setdefault(results, FullPath(f))
    /\ pc' = "open"
    /\ UNCHANGED <<tree, extensions, self_file, contents, lineno, ret, open_files,
                   opened, parsed, modules, module_data, fault, self_path, output>>

\* line 98: open(full_path, 'r')
OpenFile ==
    /\ pc = "open"
    /\ open_files' = open_files \cup {FullPath(cur)}
    /\ opened' = opened \cup {FullPath(cur)}
    /\ pc' = "read"
    /\ UNCHANGED <<tree, extensions, self_file, pending, results, cur, contents,
                   lineno, ret, parsed, modules, module_data, fault, self_path,
                   output>>

\* line 98 raising OSError: nothing was opened
OpenFails ==
    /\ pc = "open"
    /\ fault' = "OSError"
    /\ pc' = "aborted"
    /\ UNCHANGED <<tree, extensions, self_file, pending, results, cur, contents,
                   lineno, ret, open_files, opened, parsed, modules, module_data,
                   self_path, output>>

\* line 99: contents = f.readlines()
ReadLines ==
    /\ pc = "read"
    /\ contents' = SourceOf(FullPath(cur), tree)
    /\ pc' = "exit_with"
    /\ UNCHANGED <<tree, extensions, self_file, pending, results, cur, lineno, ret,
                   open_files, opened, parsed, modules, module_data, fault,
                   self_path, output>>

\* line 99 raising inside the with block
ReadFails ==
    /\ pc = "read"
    /\ fault' = "OSError"
    /\ pc' = "exit_with"
    /\ UNCHANGED <<tree, extensions, self_file, pending, results, cur, contents,
                   lineno, ret, open_files, opened, parsed, modules, module_data,
                   self_path, output>>

\* leaving the with block of lines 98-99
ExitWith ==
    /\ pc = "exit_with"
    /\ open_files' = release(open_files, FullPath(cur), fault # "")
    /\ pc' = IF fault # "" THEN "aborted" ELSE "analyze"
    /\ UNCHANGED <<tree, extensions, self_file, pending, results, cur, contents,
                   lineno, ret, opened, parsed, modules, module_data, fault,
                   self_path, output>>

\* lines 101-111: the structural analysis of the module named like the file,
\* and the records of the objects retained
Analyze ==
    /\ pc = "analyze"
    /\ LET full_path == FullPath(cur)
           fn == splitext_root(cur.name)
           r == readmodule(fn, cur.dir, tree, [cache |-> modules, parsed |-> parsed])
           c == collect(r.tree, 1, full_path, contents, [results |-> results, fault |-> ""])
       IN  /\ modules' = r.st.cache
           /\ parsed' = r.st.parsed
           /\ IF r.status # "ok"
              THEN /\ fault' = r.status
                   /\ pc' = "aborted"
                   /\ UNCHANGED <<module_data, results>>
              ELSE /\ module_data' = r.tree
                   /\ results' = c.results
                   /\ fault' = c.fault
                   /\ pc' = IF c.fault = "" THEN "walk" ELSE "aborted"
    /\ UNCHANGED <<tree, extensions, self_file, pending, cur, contents, lineno, ret,
                   open_files, opened, self_path, output>>

\* line 113: return results
Return ==
    /\ pc = "walk" /\ pending = {}
    /\ pc' = "done"
    /\ UNCHANGED <<tree, extensions, self_file, pending, results, cur, contents,
                   lineno, ret, open_files, opened, parsed, modules, module_data,
                   fault, self_path, output>>

\* lines 131-132: the document is serialized and printed
Report ==
    /\ pc = "done"
    /\ output' = dumps(results)
    /\ pc' = "reported"
    /\ UNCHANGED <<tree, extensions, self_file, pending, results, cur, contents,
                   lineno, ret, open_files, opened, parsed, modules, module_data,
                   fault, self_path>>

Next ==
    \/ \E f \in pending : SkipSelf(f)
    \/ \E f \in pending : SkipExtension(f)
    \/ \E f \in pending : Visit(f)
    \/ OpenFile
    \/ OpenFails
    \/ ReadLines
    \/ ReadFails
    \/ ExitWith
    \/ Analyze
    \/ Return
    \/ Report

Spec == Init /\ [][Next]_vars

-----------------------------------------------------------------------------
(* get_routes on its own: every contents of at most MaxLines lines of      *)
(* LinePool and every line number around them.                             *)

LinePool ==
    { "@a.route(1)\n", "@b.route(2) \t\n", "@login\n", "  @c.route(3)\n",
      "x.route(@)\n", "@d.route\n", "\n" }

RECURSIVE SeqsUpTo(_, _)
SeqsUpTo(S, n) ==
    IF n = 0 THEN {<<>>}
    ELSE LET shorter == SeqsUpTo(S, n - 1)
         IN  shorter \cup {Append(s, x) : s \in {t \in shorter : Len(t) = n - 1}, x \in S}

NoResult == [status |-> "none", routes |-> <<>>, taken |-> <<>>]

InitGetRoutes ==
    /\ pc = "call"
    /\ contents \in SeqsUpTo(LinePool, MaxLines)
    /\ lineno \in -1..(Len(contents) + 3)
    /\ ret = NoResult
    /\ tree = {}
    /\ extensions = <<>>
    /\ self_file = ""
    /\ pending = {}
    /\ results = <<>>
    /\ cur = [dir |-> "", name |-> ""]
    /\ open_files = {}
    /\ opened = {}
    /\ parsed = {}
    /\ modules = <<>>
    /\ module_data = <<>>
    /\ fault = ""
    /\ self_path = ""
    /\ output = <<>>

CallGetRoutes ==
    /\ pc = "call"
    /\ ret' = get_routes(contents, lineno)
    /\ pc' = IF ret'.status = "ok" THEN "returned" ELSE "raised"
    /\ fault' = IF ret'.status = "ok" THEN "" ELSE ret'.status
    /\ UNCHANGED <<tree, extensions, self_file, pending, results, cur, contents,
                   lineno, open_files, opened, parsed, modules, module_data,
                   self_path, output>>

NextGetRoutes == CallGetRoutes

SpecGetRoutes == InitGetRoutes /\ [][NextGetRoutes]_vars


-----------------------------------------------------------------------------
(* What the claims about get_routes say, stated on the text of the lines   *)
(* and not through the operators of the scan.                              *)

BeginsWithAt(line) == Len(line) >= 1 /\ SubSeq(line, 1, 1) = "@"

HasRouteMark(line) ==
    \E i \in 1..Len(line) : i + 6 <= Len(line) /\ SubSeq(line, i, i + 6) = ".route("

IsBlank(c) == c \in {" ", "\t", "\n", "\r", "\f"}

\* t is s without its leading and trailing whitespace
IsStrippedOf(t, s) ==
    \E i \in 1..(Len(s) + 1) : \E j \in (i - 1)..Len(s) :
        /\ t = SubSeq(s, i, j)
        /\ \A k \in 1..(i - 1) : IsBlank(SubSeq(s, k, k))
        /\ \A k \in (j + 1)..Len(s) : IsBlank(SubSeq(s, k, k))
        /\ j >= i => ~IsBlank(SubSeq(s, i, i)) /\ ~IsBlank(SubSeq(s, j, j))

\* N: how many lines immediately before line L (1-based) begin with '@'
DecoratorRun(cont, L) ==
    CHOOSE n \in 0..(L - 1) :
        /\ \A i \in 1..n : BeginsWithAt(cont[L - i])
        /\ n = L - 1 \/ ~BeginsWithAt(cont[L - 1 - n])

\* the (1-based) positions of the M route lines of that run, nearest first
RouteLines(cont, L) ==
    SelectSeq([i \in 1..DecoratorRun(cont, L) |-> L - i],
              LAMBDA j : HasRouteMark(cont[j]))

\* C1: for a definition line L inside the file that is preceded by N
\* contiguous lines beginning with '@', M of which contain '.route(',
\* get_routes returns exactly M entries, the stripped texts of those M lines,
\* nearest to the definition first; '@' lines without '.route(' are skipped
\* and do not end the scan.
C1_RoutesOfRun ==
    (pc = "returned" /\ lineno \in 1..Len(contents)) =>
        LET idx == RouteLines(contents, lineno) IN
        /\ Len(ret.routes) = Len(idx)
        /\ \A k \in 1..Len(idx) : IsStrippedOf(ret.routes[k], contents[idx[k]])

\* a run of two '@' lines whose nearer line lacks '.route(' and whose farther
\* line has it: one route is returned, and it differs from the raw line
C1_Witness ==
    /\ pc = "returned"
    /\ lineno \in 1..Len(contents)
    /\ DecoratorRun(contents, lineno) = 2
    /\ ~HasRouteMark(contents[lineno - 1])
    /\ HasRouteMark(contents[lineno - 2])
    /\ Len(ret.routes) = 1
    /\ ret.routes[1] # contents[lineno - 2]

\* C2 (as claimed): get_routes never raises, for any lines and any integer
\* line number, and returns the empty sequence whenever the start index
\* lineno - 2 is outside the range of the lines.
C2_NeverFails ==
    /\ pc # "raised"
    /\ (pc = "returned" /\ (lineno - 2 < 0 \/ lineno - 2 >= Len(contents)))
           => ret.routes = <<>>

\* C8: a line before the definition that does not begin with '@' ends the
\* scan: no line at or above it is among the lines get_routes returns, and
\* every returned route is the stripped text of a line the scan took.
C8_StopsAtInterruption ==
    pc = "returned" =>
        /\ Len(ret.routes) = Len(ret.taken)
        /\ \A k \in 1..Len(ret.taken) :
               IsStrippedOf(ret.routes[k], contents[ret.taken[k] + 1])
        /\ \A j \in 1..(lineno - 1) :
               (j <= Len(contents) /\ ~BeginsWithAt(contents[j]))
                   => \A k \in 1..Len(ret.taken) : ret.taken[k] + 1 > j

\* a route line above an interruption, another one below it, and only the
\* lower one returned
C8_Witness ==
    /\ pc = "returned"
    /\ \E j \in 2..(lineno - 2) :
           /\ j < Len(contents)
           /\ ~BeginsWithAt(contents[j])
           /\ BeginsWithAt(contents[j - 1]) /\ HasRouteMark(contents[j - 1])
           /\ BeginsWithAt(contents[j + 1]) /\ HasRouteMark(contents[j + 1])
    /\ Len(ret.routes) = 1

-----------------------------------------------------------------------------
(* What the claims about find and the report say.                          *)

\* the name ends in one of the configured extensions
EndsInExtension(name) ==
    \E i \in 1..Len(extensions) :
        LET e == extensions[i] IN
        Len(name) >= Len(e) /\ SubSeq(name, Len(name) - Len(e) + 1, Len(name)) = e

\* the source declares no function and no class
DeclaresNothing(lines) ==
    \A i \in 1..Len(lines) :
        SubSeq(lines[i], 1, 4) # "def " /\ SubSeq(lines[i], 1, 6) # "class "

MemberKeys(obj) == {obj[i].key : i \in 1..Len(obj)}

RecordFields == {"type", "name", "lineno", "routes"}

C4_FileEqualsKey ==
    \A i \in 1..Len(results) : \A j \in 1..Len(results[i].val) :
        results[i].val[j].file = results[i].key

\* the analysis of the current file reported an object of another file,
\* and the file's entry holds a record of its own
C4_Witness ==
    /\ pc = "walk"
    /\ cur # NoFile
    /\ FullPath(cur) \in Keys(results)
    /\ Val(results, FullPath(cur)) # <<>>
    /\ \E i \in 1..Len(module_data) : module_data[i].val.file # FullPath(cur)

\* the records find stores for file f in the tree that holds f alone
RecordsAlone(f) ==
    LET r == readmodule(splitext_root(f.name), f.dir, {f}, [cache |-> <<>>, parsed |-> {}])
        c == collect(r.tree, 1, FullPath(f), f.lines,
                     [results |-> <<[key |-> FullPath(f), val |-> <<>>]>>, fault |-> ""])
    IN  [status |-> r.status, records |-> c.results[1].val]

\* C5 (as claimed): the records stored under a file's key depend on that
\* file alone: a completed run stores under it what the run over the tree
\* holding only that file stores, whatever other files were visited before.
C5_DependsOnlyOnFile ==
    pc = "done" =>
        \A f \in tree :
            (FullPath(f) \in Keys(results) /\ RecordsAlone(f).status = "ok")
                => Val(results, FullPath(f)) = RecordsAlone(f).records

\* C6 (as claimed): after a completed run every file whose name ends in a
\* recognized extension is a key of the mapping, with the empty sequence
\* when nothing was retained for it.
C6_EveryMatchingFileIsKey ==
    pc = "done" =>
        \A f \in tree :
            EndsInExtension(f.name) =>
                /\ FullPath(f) \in Keys(results)
                /\ DeclaresNothing(f.lines) => Val(results, FullPath(f)) = <<>>

\* C6 (amended): after a completed run every file whose name ends in a
\* recognized extension and differs from the analyzer's __file__ is a key
\* of the mapping, with the empty sequence when the file declares nothing.
C6_EveryVisitedFileIsKey ==
    pc = "done" =>
        \A f \in tree :
            (EndsInExtension(f.name) /\ f.name # self_file) =>
                /\ FullPath(f) \in Keys(results)
                /\ DeclaresNothing(f.lines) => Val(results, FullPath(f)) = <<>>

\* a completed run over a tree with a shell file and a Python file, the
\* shell file a key with the empty sequence
C6_Witness ==
    /\ pc = "done"
    /\ \E f \in tree :
           /\ EndsInExtension(f.name) /\ f.name # self_file
           /\ SubSeq(f.name, Len(f.name) - 2, Len(f.name)) = ".sh"
           /\ FullPath(f) \in Keys(results)
           /\ Val(results, FullPath(f)) = <<>>
    /\ \E i \in 1..Len(results) : results[i].val # <<>>

\* C7 (as claimed): a file whose name ends in none of the configured
\* extensions is never a key, never opened and never analysed.
C7_NonMatchingUntouched ==
    \A f \in tree :
        ~EndsInExtension(f.name) =>
            /\ FullPath(f) \notin Keys(results)
            /\ FullPath(f) \notin opened
            /\ FullPath(f) \notin parsed

\* C9: at most one file is open at any time, and none is open once the with
\* block is left: not when the analysis starts, not between files, not when
\* the run completes and not when it aborts on a fault.
C9_FilesClosed ==
    /\ Cardinality(open_files) <= 1
    /\ pc \in {"walk", "open", "analyze", "done", "reported", "aborted"}
           => open_files = {}

\* a run aborted by a fault on reading a file it had opened
C9_Witness ==
    /\ pc = "aborted"
    /\ fault = "OSError"
    /\ FullPath(cur) \in opened
    /\ open_files = {}

\* C10 (as claimed): the analyzer's own file, when under the root with a
\* recognized extension, is skipped whatever form __file__ takes, and no
\* other file is skipped by that check.
C10_SkipsExactlyOwnFile ==
    pc = "done" =>
        \A f \in tree :
            EndsInExtension(f.name) =>
                /\ FullPath(f) = self_path =>
                       FullPath(f) \notin Keys(results) /\ FullPath(f) \notin opened
                /\ FullPath(f) # self_path => FullPath(f) \in Keys(results)

=============================================================================
